---- MODULE Spec2Model ----
(***************************************************************************)
(* A model of the HTTP server engine of src/supplemental/http/server.c:    *)
(* the per-connection session (http_sconn) driven by its four aio slots,   *)
(* the server instance (accept loop, start/stop, fini), the handler        *)
(* registry and the process-wide server directory.                         *)
(*                                                                         *)
(* Several specifications share the module:                                *)
(*   Spec      one server, started and stopped once, and its sessions      *)
(*   FairSpec  the same under fair scheduling, for the drain after a stop  *)
(*   FairFini  the same, the server released at any time                   *)
(*   SpecLife  the start / stop / accept life of one server                *)
(*   SpecReg   the handler registry of one server (add / delete)           *)
(*   SpecLook  the registry and the lookup of http_sconn_rxdone            *)
(*   SpecCanon http_uri_canonify on request-URIs                           *)
(*   SpecHead  one session dispatching GET, HEAD and POST requests         *)
(*   SpecDisp  sessions dispatching to handlers that come and go           *)
(*   SpecDir   the server directory (nni_http_server_init / _fini)         *)
(* The aio primitive (core/aio.c) is not part of server.c; its post,       *)
(* cancel and stop operations are modelled from the specification text.    *)
(***************************************************************************)
EXTENDS Integers, Sequences, FiniteSets, TLC

\* ------------------------------------------------------------------ bounds
MaxConns    == 2   \* connections the listener ever hands to the accept callback
MaxStarts   == 2   \* cap on the starts counter
MaxReap     == 2   \* cap on the reap bookkeeping counters
MaxHandlers == 2   \* capacity of the handler registry in SpecReg
MaxPathLen  == 2   \* longest registered path (before trimming) in SpecReg
MaxServers  == 2   \* server instances alive at once in SpecDir
MaxRef      == 2   \* cap on a server's refcount in SpecDir

Conns == 1..MaxConns

\* ----------------------------------------------------------------- strings
\* A C string is a sequence of one-character strings; NULLSTR is the null
\* pointer.  CharAt reads the terminating NUL past the end.
NULLSTR == <<"<null>">>
NUL     == "\\0"

S_HTTP1x   == <<"H", "T", "T", "P", "/", "1", ".">>
S_HTTP11   == <<"H", "T", "T", "P", "/", "1", ".", "1">>
S_HTTP10   == <<"H", "T", "T", "P", "/", "1", ".", "0">>
S_HTTP110  == <<"H", "T", "T", "P", "/", "1", ".", "1", "0">>
S_HTTP20   == <<"H", "T", "T", "P", "/", "2", ".", "0">>
S_HTTP09   == <<"H", "T", "T", "P">>
S_close    == <<"c", "l", "o", "s", "e">>
S_CLOSE    == <<"C", "L", "O", "S", "E">>
S_kaclose  == <<"k", "a", ",", "c", "l", "o", "s", "E">>
S_keep     == <<"k", "e", "e", "p">>
S_HEAD     == <<"H", "E", "A", "D">>
S_GET      == <<"G", "E", "T">>
S_POST     == <<"P", "O", "S", "T">>

UpperChars == <<"A", "C", "E", "H", "K", "L", "O", "P", "S", "T", "X", "Y">>
LowerChars == <<"a", "c", "e", "h", "k", "l", "o", "p", "s", "t", "x", "y">>

tolower(c) ==
    IF \E i \in 1..Len(UpperChars) : UpperChars[i] = c
    THEN LowerChars[CHOOSE i \in 1..Len(UpperChars) : UpperChars[i] = c]
    ELSE c

CharAt(s, i) == IF i <= Len(s) THEN s[i] ELSE NUL

\* strncmp(a, b, n) == 0
strncmp_eq(a, b, n) ==
    \A i \in 1..n :
        (\A j \in 1..(i - 1) : CharAt(a, j) = CharAt(b, j) /\ CharAt(a, j) # NUL)
            => CharAt(a, i) = CharAt(b, i)

\* strcmp(a, b) == 0
strcmp_eq(a, b) == a = b

\* nni_strcasecmp(a, b) == 0
nni_strcasecmp_eq(a, b) ==
    /\ Len(a) = Len(b)
    /\ \A i \in 1..Len(a) : tolower(a[i]) = tolower(b[i])

\* nni_strcasestr(hay, needle) != NULL
nni_strcasestr_found(hay, needle) ==
    \E off \in 0..Len(hay) :
        /\ off + Len(needle) <= Len(hay)
        /\ \A j \in 1..Len(needle) : tolower(hay[off + j]) = tolower(needle[j])

\* strstr(hay, needle) != NULL
strstr_found(hay, needle) ==
    \E off \in 0..Len(hay) :
        /\ off + Len(needle) <= Len(hay)
        /\ \A j \in 1..Len(needle) : hay[off + j] = needle[j]

\* ------------------------------------------------------- uri canonifier
\* The characters by byte value (entry n + 1 is byte n); a byte that has no
\* printable character is written \xNN.
ByteChars ==
  <<
     NUL, "\\x01", "\\x02", "\\x03", "\\x04", "\\x05", "\\x06", "\\x07",
     "\\x08", "\\x09", "\\x0a", "\\x0b", "\\x0c", "\\x0d", "\\x0e", "\\x0f",
     "\\x10", "\\x11", "\\x12", "\\x13", "\\x14", "\\x15", "\\x16", "\\x17",
     "\\x18", "\\x19", "\\x1a", "\\x1b", "\\x1c", "\\x1d", "\\x1e", "\\x1f",
     " ", "!", "\"", "#", "$", "%", "&", "'",
     "(", ")", "*", "+", ",", "-", ".", "/",
     "0", "1", "2", "3", "4", "5", "6", "7",
     "8", "9", ":", ";", "<", "=", ">", "?",
     "@", "A", "B", "C", "D", "E", "F", "G",
     "H", "I", "J", "K", "L", "M", "N", "O",
     "P", "Q", "R", "S", "T", "U", "V", "W",
     "X", "Y", "Z", "[", "\\", "]", "^", "_",
     "\\x60", "a", "b", "c", "d", "e", "f", "g",
     "h", "i", "j", "k", "l", "m", "n", "o",
     "p", "q", "r", "s", "t", "u", "v", "w",
     "x", "y", "z", "{", "|", "}", "~", "\\x7f",
     "\\x80", "\\x81", "\\x82", "\\x83", "\\x84", "\\x85", "\\x86", "\\x87",
     "\\x88", "\\x89", "\\x8a", "\\x8b", "\\x8c", "\\x8d", "\\x8e", "\\x8f",
     "\\x90", "\\x91", "\\x92", "\\x93", "\\x94", "\\x95", "\\x96", "\\x97",
     "\\x98", "\\x99", "\\x9a", "\\x9b", "\\x9c", "\\x9d", "\\x9e", "\\x9f",
     "\\xa0", "\\xa1", "\\xa2", "\\xa3", "\\xa4", "\\xa5", "\\xa6", "\\xa7",
     "\\xa8", "\\xa9", "\\xaa", "\\xab", "\\xac", "\\xad", "\\xae", "\\xaf",
     "\\xb0", "\\xb1", "\\xb2", "\\xb3", "\\xb4", "\\xb5", "\\xb6", "\\xb7",
     "\\xb8", "\\xb9", "\\xba", "\\xbb", "\\xbc", "\\xbd", "\\xbe", "\\xbf",
     "\\xc0", "\\xc1", "\\xc2", "\\xc3", "\\xc4", "\\xc5", "\\xc6", "\\xc7",
     "\\xc8", "\\xc9", "\\xca", "\\xcb", "\\xcc", "\\xcd", "\\xce", "\\xcf",
     "\\xd0", "\\xd1", "\\xd2", "\\xd3", "\\xd4", "\\xd5", "\\xd6", "\\xd7",
     "\\xd8", "\\xd9", "\\xda", "\\xdb", "\\xdc", "\\xdd", "\\xde", "\\xdf",
     "\\xe0", "\\xe1", "\\xe2", "\\xe3", "\\xe4", "\\xe5", "\\xe6", "\\xe7",
     "\\xe8", "\\xe9", "\\xea", "\\xeb", "\\xec", "\\xed", "\\xee", "\\xef",
     "\\xf0", "\\xf1", "\\xf2", "\\xf3", "\\xf4", "\\xf5", "\\xf6", "\\xf7",
     "\\xf8", "\\xf9", "\\xfa", "\\xfb", "\\xfc", "\\xfd", "\\xfe", "\\xff"
  >>

Chr(n) == ByteChars[n + 1]

Ord(c) == CHOOSE n \in 0..255 : ByteChars[n + 1] = c

InRange(c, lo, hi) ==
    /\ \E n \in 0..255 : ByteChars[n + 1] = c
    /\ Ord(lo) <= Ord(c) /\ Ord(c) <= Ord(hi)

\* isxdigit (libc, C locale).
isxdigit(c) ==
    InRange(c, "0", "9") \/ InRange(c, "a", "f") \/ InRange(c, "A", "F")

http_hexval(c) ==
    IF InRange(c, "0", "9") THEN Ord(c) - Ord("0")
    ELSE IF InRange(c, "a", "f") THEN (Ord(c) - Ord("a")) + 10
    ELSE IF InRange(c, "A", "F") THEN (Ord(c) - Ord("A")) + 10
    ELSE 0

\* The uri buffer: the characters, their terminating NUL at Len + 1, and
\* "<oob>" for a read outside the buffer.
BufAt(buf, i) ==
    IF i >= 1 /\ i <= Len(buf) THEN buf[i]
    ELSE IF i = Len(buf) + 1 THEN NUL
    ELSE "<oob>"

\* strchr(buf + from - 1, c): the index of the first c at or after from and
\* before the first NUL, 0 if there is none.
strchr_at(buf, from, c) ==
    LET hits == {i \in from..Len(buf) :
                    /\ buf[i] = c
                    /\ \A j \in from..(i - 1) : buf[j] # NUL /\ buf[j] # c}
    IN  IF hits = {} THEN 0 ELSE CHOOSE i \in hits : TRUE

\* nni_strncasecmp(buf, lit, n) == 0
nni_strncasecmp_eq(buf, lit, n) ==
    \A i \in 1..n :
        (\A j \in 1..(i - 1) :
            /\ tolower(BufAt(buf, j)) = tolower(BufAt(lit, j))
            /\ BufAt(buf, j) # NUL)
            => tolower(BufAt(buf, i)) = tolower(BufAt(lit, i))

S_httpcss  == <<"h", "t", "t", "p", ":", "/", "/">>
S_httpscss == <<"h", "t", "t", "p", "s", ":", "/", "/">>
S_slash    == <<"/">>

RECURSIVE unescape_M(_, _, _)
unescape_M(buf, i, out) ==
    IF i > Len(buf) + 1 THEN [path |-> out, oob |-> TRUE, tmp |-> i]
    ELSE IF BufAt(buf, i) = NUL THEN [path |-> out, oob |-> FALSE, tmp |-> i]
    ELSE IF BufAt(buf, i) # "%"
    THEN unescape_M(buf, i + 1, Append(out, BufAt(buf, i)))
    ELSE IF isxdigit(BufAt(buf, i + 1)) /\ isxdigit(BufAt(buf, i + 2))
    THEN LET c == Chr((http_hexval(BufAt(buf, i + 1)) * 16
                          + http_hexval(BufAt(buf, i + 2))) % 256)
         IN  unescape_M(buf, i + 4, out \o <<c, c>>)
    ELSE unescape_M(buf, i + 1, out)

\* The unescape loop of http_uri_canonify from index i (tmp), out being
\* what has been stored through dst.  oob: the loop has read outside the
\* buffer; tmp: the read index where the loop stopped or left the buffer.
RECURSIVE unescape(_, _, _)
unescape(buf, i, out) ==
    IF i > Len(buf) + 1 THEN [path |-> out, oob |-> TRUE, tmp |-> i]
    ELSE IF BufAt(buf, i) = NUL THEN [path |-> out, oob |-> FALSE, tmp |-> i]
    ELSE IF BufAt(buf, i) # "%"
    THEN unescape(buf, i + 1, Append(out, BufAt(buf, i)))
    ELSE IF isxdigit(BufAt(buf, i + 1)) /\ isxdigit(BufAt(buf, i + 2))
    THEN LET c == Chr((http_hexval(BufAt(buf, i + 1)) * 16
                          + http_hexval(BufAt(buf, i + 2))) % 256)
         IN  unescape(buf, i + 4, out \o <<c, c>>)
    ELSE unescape(buf, i + 1, Append(out, "%"))

\* http_uri_canonify(uri): the stored characters, whether the loop read
\* outside the buffer, and the read index tmp and the write index dst the
\* loop ended with (both at the start of the buffer if it did not run).
http_uri_canonify(uri) ==
    LET q    == strchr_at(uri, 1, "?")
        buf  == IF q = 0 THEN uri ELSE [uri EXCEPT ![q] = NUL]
        abs  == \/ nni_strncasecmp_eq(buf, S_httpcss, 7)
                \/ nni_strncasecmp_eq(buf, S_httpscss, 8)
        host == strchr_at(buf, 1, ":") + 3
        sl   == strchr_at(buf, host, "/")
        from == IF abs THEN sl ELSE 1
        r    == unescape(buf, from, <<>>)
    IN  IF abs /\ sl = 0
        THEN [path |-> S_slash, oob |-> FALSE, tmp |-> 1, dst |-> 1]
        ELSE [path |-> r.path, oob |-> r.oob, tmp |-> r.tmp,
              dst |-> from + Len(r.path)]

\* The C string a character array holds: what precedes its first NUL.
cstr(a) ==
    IF \E i \in 1..Len(a) : a[i] = NUL
    THEN SubSeq(a, 1, (CHOOSE i \in 1..Len(a) :
                          a[i] = NUL /\ \A j \in 1..(i - 1) : a[j] # NUL) - 1)
    ELSE a

\* What the bytes outside the buffer may add before a NUL is met.
Garbage == {<<>>, <<"g">>}

\* The paths http_uri_canonify may return for uri.
canon_paths(uri) ==
    LET r == http_uri_canonify(uri)
    IN  IF r.oob THEN {cstr(r.path \o g) : g \in Garbage} ELSE {cstr(r.path)}

\* The request-URIs of the model: every string of at most MaxUriLen
\* characters of UriChars, and some longer ones.
MaxUriLen == 4

UriChars == {"/", "a", "%", "4", "1", "2", "5", "?"}

LongUris ==
    { <<"h", "t", "t", "p", ":", "/", "/", "x", "/", "a">>,
      <<"H", "T", "T", "P", ":", "/", "/", "x">>,
      <<"h", "t", "t", "p", "s", ":", "/", "/", "x", "/", "%", "4", "1", "a">>,
      <<"h", "t", "t", "p", ":", "/", "/", "x", "?", "/", "a">>,
      <<"/", "%", "2", "5", "4", "1">>,
      <<"/", "%", "2", "5", "4", "4", "1", "a">>,
      <<"/", "%", "3", "F", "a">>,
      <<"/", "%", "3", "f", "/", "a">>,
      <<"/", "a", "%", "2", "F", "a", "a">> }

Uris ==
    UNION {[1..n -> UriChars] : n \in 0..MaxUriLen} \cup LongUris

NoCanon == [uri |-> NULLSTR, path |-> NULLSTR, again |-> FALSE]

\* ---------------------------------------------------------------- requests
\* What the codec hands to http_sconn_rxdone: the version, the Connection
\* header, the method, the outcome of the registry lookup for the request's
\* host, path and method ("none": no handler, "badmeth": host and path only,
\* "plain" / "upg": a handler, upgrader or not), and the allocation failure
\* met on the way, if any ("uri": the copy of the uri; "init" and "hdr": the
\* two steps of http_sconn_error).
Versions    == {NULLSTR, S_HTTP11, S_HTTP10, S_HTTP110, S_HTTP20, S_HTTP09}
ConnHeaders == {NULLSTR, S_close, S_CLOSE, S_kaclose, S_keep}
Methods     == {S_GET, S_HEAD}
Routes      == {"none", "badmeth", "plain", "upg"}
Faults      == {"none", "uri", "init", "hdr"}

Requests ==
    [version : Versions, conn : ConnHeaders, method : Methods, route : Routes,
     fault : Faults]

\* The status http_sconn_rxdone answers with before any lookup: 400, 505,
\* or 0 when the request goes on to dispatch.
rxdone_status(rq) ==
    IF rq.version = NULLSTR THEN 400
    ELSE IF ~strncmp_eq(rq.version, S_HTTP1x, 7) THEN 505
    ELSE 0

\* Whether http_sconn_rxdone executes sc->close = true for the request.
rxdone_sets_close_M(rq) ==
    IF rq.version = NULLSTR THEN TRUE
    ELSE IF ~strncmp_eq(rq.version, S_HTTP1x, 7) THEN TRUE
    ELSE rq.conn # NULLSTR /\ nni_strcasestr_found(rq.conn, S_close)

rxdone_sets_close(rq) ==
    IF rq.version = NULLSTR THEN TRUE
    ELSE IF ~strncmp_eq(rq.version, S_HTTP1x, 7) THEN TRUE
    ELSE \/ ~strcmp_eq(rq.version, S_HTTP11)
         \/ rq.conn # NULLSTR /\ nni_strcasestr_found(rq.conn, S_close)

\* The close indication of a request as the version policy words it: no
\* version, a version that does not start with HTTP/1., an HTTP/1.x other
\* than exactly HTTP/1.1, or a Connection header with "close" in any letter
\* case.  (A history value for the properties; the code's own computation
\* is rxdone_sets_close.)
CloseIndicated(rq) ==
    \/ rq.version = NULLSTR
    \/ Len(rq.version) < 7
    \/ SubSeq(rq.version, 1, 7) # S_HTTP1x
    \/ rq.version # S_HTTP11
    \/ /\ rq.conn # NULLSTR
       /\ \E i \in 1..Len(rq.conn) :
              /\ i + 4 <= Len(rq.conn)
              /\ [k \in 1..5 |-> tolower(rq.conn[i + k - 1])] = S_close

\* What http_sconn_rxdone reads of a request.
rxview(rq) ==
    [status |-> rxdone_status(rq), setclose |-> rxdone_sets_close(rq),
     head |-> strcmp_eq(rq.method, S_HEAD), route |-> rq.route,
     fault |-> rq.fault, want |-> CloseIndicated(rq)]

RxViews == {rxview(rq) : rq \in Requests}

\* What a handler hands back through output 0 of the cb slot when it gives a
\* response: the response's Connection header and whether it has a body.
Responses == [conn : ConnHeaders, body : BOOLEAN]

\* Whether http_sconn_cbdone executes sc->close = true for the response.
cbdone_sets_close(resp) ==
    resp.conn # NULLSTR /\ strstr_found(resp.conn, S_close)

\* What http_sconn_cbdone and http_sconn_txdone read of a response.
resview(resp) == [setclose |-> cbdone_sets_close(resp), body |-> resp.body]

ResViews == {resview(resp) : resp \in Responses}

\* ------------------------------------------------------------------- state
VARIABLES
    starts,      \* s->starts
    s_closed,    \* s->closed
    tep,         \* s->tep: "null", "listening" or "closed"
    accaio,      \* s->accaio: "idle", "posted", "ok" or "err"
    accfini,     \* nni_aio_stop(s->accaio) has been called
    conns,       \* s->conns, the live-set
    nconn,       \* connections the listener has delivered so far
    start_rv,    \* what the last nni_http_server_start returned
    fini_pc,     \* http_server_fini: "none", "stopacc" (in nni_aio_stop),
                 \*   "waiting" (in nni_cv_wait), "woken" or "freed"
    sess,        \* the sessions, by connection number
    handlers,    \* s->handlers (SpecReg)
    add_rv,      \* what the last add-handler returned (SpecReg)
    hstore,      \* handlers unlinked from s->handlers and still referenced
                 \*   (limbo), and what went wrong with handler storage
    look_rv,     \* the lookup made on the present registry (SpecLook)
    canon_rv,    \* the last http_uri_canonify call (SpecCanon)
    servers,     \* the server directory and its instances (SpecDir)
    init_rv,     \* what the last nni_http_server_init returned (SpecDir)
    lk           \* the lock and unlock operations of the last
                 \*   nni_http_server_init or nni_http_server_fini call, in
                 \*   the order it made them (SpecDir)

varsSrv == <<starts, s_closed, tep, accaio, accfini, conns, nconn, start_rv,
             fini_pc, sess>>
varsReg == <<handlers, add_rv, hstore, look_rv, canon_rv>>
varsDir == <<servers, init_rv, lk>>
vars    == <<varsSrv, varsReg, varsDir>>

Slots == {"rx", "tx", "txd", "cb"}

\* One http_sconn.  life: "unborn" (not yet accepted), "live", "freed".
\* rx, tx, txd, cb: the aio slots rxaio, txaio, txdataio, cbaio, each
\*   "idle", "posted", or completed with no error ("ok") or with one
\*   ("err") until the completion handler has acted on the result; cb is
\*   also "run": http_sconn_cbdone has released the server lock and goes on.
\* http: sc->http is "set" or "null"; xport: the transport it was made for,
\*   "none", "open", "closed" or "fini".
\* res: sc->res is "null", or a response "empty" or with a "body".
\* head: the method of sc->req is HEAD.
\* cbout / cbupg: output 0 of cbaio ("none", "null", "res") and the
\*   h_is_upgrader flag of the handler attached to it.
\* cbh: data 1 of cbaio, the handler the dispatch took a reference on
\*   (its h_id, 0 when the model does not follow the registry).
\* reapq: reap items queued for the session; reaping: http_sconn_reap runs.
\* The g_ fields are history variables, read by the properties only.
SessInit ==
    [life |-> "unborn", rx |-> "idle", tx |-> "idle", txd |-> "idle",
     cb |-> "idle", close |-> FALSE, closed |-> FALSE, finished |-> FALSE,
     http |-> "null", xport |-> "none", res |-> "null", head |-> FALSE,
     cbout |-> "none", cbupg |-> FALSE, cbh |-> 0, reapq |-> 0,
     reaping |-> FALSE,
     afail |-> FALSE,
     g_sched |-> 0, g_runs |-> 0, g_upgraded |-> FALSE, g_touched |-> FALSE,
     g_pending |-> FALSE, g_resp |-> FALSE, g_upg |-> FALSE,
     g_unanswered |-> "no", g_wantclose |-> FALSE,
     g_txclose |-> 0]

InitSrv ==
    /\ starts = 0
    /\ s_closed = FALSE
    /\ tep = "null"
    /\ accaio = "idle"
    /\ accfini = FALSE
    /\ conns = {}
    /\ nconn = 0
    /\ start_rv = 0
    /\ fini_pc = "none"
    /\ sess = [c \in Conns |-> SessInit]

Inc(n) == IF n < MaxReap THEN n + 1 ELSE n

\* ------------------------------------------------------------ aio (slots)
\* nni_aio_cancel: a posted operation completes with the error; an idle or
\* already completed slot is left alone.
aio_cancel(st) == IF st = "posted" THEN "err" ELSE st

\* Posting an operation on a slot.
post(r, slot) == [r EXCEPT ![slot] = "posted"]

AllIdle(r) == \A sl \in Slots : r[sl] = "idle"

\* -------------------------------------------------------- session helpers
http_sconn_close_locked_M(r) ==
    [r EXCEPT !.afail = r.afail \/ r.finished,
              !.closed = TRUE,
              !.rx = aio_cancel(r.rx),
              !.tx = aio_cancel(r.tx),
              !.txd = aio_cancel(r.txd),
              !.cb = aio_cancel(r.cb),
              !.xport = IF r.http = "set" /\ r.xport = "open"
                        THEN "closed" ELSE r.xport,
              !.reapq = Inc(r.reapq),
              !.g_sched = Inc(r.g_sched),
              !.g_touched = r.g_touched \/ (r.http = "set" /\ r.g_upgraded)]

\* http_sconn_close_locked (and http_sconn_close, which only adds the lock):
\* a no-op on a closed session; otherwise cancel the four slots, close the
\* transport if the session still points to it, and queue the reap.
http_sconn_close_locked(r) ==
    IF r.closed THEN r
    ELSE [r EXCEPT !.afail = r.afail \/ r.finished,
                   !.closed = TRUE,
                   !.rx = aio_cancel(r.rx),
                   !.tx = aio_cancel(r.tx),
                   !.txd = aio_cancel(r.txd),
                   !.cb = aio_cancel(r.cb),
                   !.xport = IF r.http = "set" /\ r.xport = "open"
                             THEN "closed" ELSE r.xport,
                   !.reapq = Inc(r.reapq),
                   !.g_sched = Inc(r.g_sched),
                   !.g_touched = r.g_touched \/ (r.http = "set" /\ r.g_upgraded)]

\* nni_http_write_res(sc->http, res, sc->txaio) with sc->res = res.
write_res(r, res) ==
    [post(r, "tx") EXCEPT !.res = res,
                          !.g_txclose = IF r.close THEN Inc(r.g_txclose)
                                        ELSE r.g_txclose,
                          !.g_touched = r.g_touched \/ r.g_upgraded]

\* nni_http_req_reset(sc->req); nni_http_read_req(sc->http, sc->req, rxaio).
\* via names the completion handler that asks for the next request.
read_req(r, via) ==
    [post(r, "rx") EXCEPT
        !.head = FALSE,
        !.g_unanswered =
            IF r.g_pending /\ ~r.g_resp /\ ~r.g_upg /\ ~r.closed
            THEN (IF via = "cb" THEN "cb_nores" ELSE "other")
            ELSE "no",
        !.g_pending = FALSE]

\* http_sconn_error: synthesize the error response and write it.  fault is
\* the allocation failure met: "init" in nni_http_res_init_error, "hdr" in
\* nni_http_res_set_header (reached only when sc->close is set).
http_sconn_error(r, fault) ==
    IF fault = "init" THEN http_sconn_close_locked(r)
    ELSE IF fault = "hdr" /\ r.close
         THEN write_res(http_sconn_close_locked(r), "body")
         ELSE write_res(r, "body")

\* ------------------------------------------------ slot completions (aio)
\* The transport completes a posted rx, tx or txd: with success only while
\* the transport is open, with an error at any time.
IoComplete(c, slot, ok) ==
    /\ sess[c].life = "live"
    /\ sess[c][slot] = "posted"
    /\ ok => sess[c].xport = "open"
    /\ sess' = [sess EXCEPT ![c] =
          [@ EXCEPT ![slot] = IF ok THEN "ok" ELSE "err",
                    !.g_pending = IF slot = "rx" /\ ok THEN TRUE ELSE @,
                    !.g_resp = IF slot = "rx" /\ ok THEN FALSE
                               ELSE IF slot = "tx" /\ ok THEN TRUE ELSE @,
                    !.g_upg = IF slot = "rx" /\ ok THEN FALSE ELSE @,
                    !.g_unanswered = IF slot = "rx" /\ ok THEN "no" ELSE @]]
    /\ UNCHANGED <<starts, s_closed, tep, accaio, accfini, conns, nconn,
                   start_rv, fini_pc, varsReg, varsDir>>

\* The handler completes the cb slot: with an error, or successfully with
\* no response ("null") or with one ("res").
HandlerComplete(c, out) ==
    /\ sess[c].life = "live"
    /\ sess[c].cb = "posted"
    /\ sess' = [sess EXCEPT ![c] =
          [@ EXCEPT !.cb = IF out = "err" THEN "err" ELSE "ok",
                    !.cbout = IF out = "err" THEN "none" ELSE out]]
    /\ UNCHANGED <<starts, s_closed, tep, accaio, accfini, conns, nconn,
                   start_rv, fini_pc, varsReg, varsDir>>

\* ------------------------------------------------- completion handlers
\* The first statement of every completion handler: a non-zero result
\* closes the session and returns.
done_error(r, slot) == http_sconn_close_locked([r EXCEPT ![slot] = "idle"])

DoneError(c, slot) ==
    /\ sess[c].life = "live"
    /\ sess[c][slot] = "err"
    /\ sess' = [sess EXCEPT ![c] = done_error(@, slot)]
    /\ UNCHANGED <<starts, s_closed, tep, accaio, accfini, conns, nconn,
                   start_rv, fini_pc, varsReg, varsDir>>

\* http_sconn_rxdone on a zero result, for a request read as v.
rxdone_rest(r, v) ==
    LET r1 == [r EXCEPT !.rx = "idle",
                        !.close = r.close \/ v.setclose,
                        !.head = v.head]
    IN  IF v.status # 0 THEN http_sconn_error(r1, v.fault)
        ELSE IF v.fault = "uri" THEN http_sconn_close_locked(r1)
        ELSE IF v.route \in {"none", "badmeth"}
             THEN http_sconn_error(r1, v.fault)
        ELSE [post(r1, "cb") EXCEPT !.cbupg = (v.route = "upg")]

RxDoneEnd(c, v) ==
    /\ sess[c].life = "live"
    /\ sess[c].rx = "ok"
    /\ sess' = [sess EXCEPT ![c] =
          [rxdone_rest(@, v) EXCEPT !.g_wantclose = v.want]]
    /\ UNCHANGED <<starts, s_closed, tep, accaio, accfini, conns, nconn,
                   start_rv, fini_pc, varsReg, varsDir>>

\* h->h_refcnt--; if (h->h_refcnt == 0) http_handler_fini(h); on the
\* handler id names: the registry and the handler storage afterwards.  A
\* record that has been finalized already, or is finalized while it is
\* still linked in s->handlers, is storage used after its release (uaf).
\* id is 0 where the registry is left out of the picture (RxDoneEnd).
cbdone_release(id) ==
    IF id = 0 THEN [hs |-> handlers, st |-> hstore]
    ELSE IF \E k \in 1..Len(handlers) : handlers[k].h_id = id
    THEN LET k == CHOOSE k \in 1..Len(handlers) : handlers[k].h_id = id
         IN  [hs |-> [handlers EXCEPT ![k].h_refcnt = @ - 1],
              st |-> IF handlers[k].h_refcnt - 1 = 0
                     THEN [hstore EXCEPT !.uaf = TRUE] ELSE hstore]
    ELSE IF \E h \in hstore.limbo : h.h_id = id
    THEN LET h == CHOOSE h \in hstore.limbo : h.h_id = id
         IN  [hs |-> handlers,
              st |-> [hstore EXCEPT !.limbo =
                        IF h.h_refcnt - 1 = 0 THEN @ \ {h}
                        ELSE (@ \ {h}) \cup
                                {[h EXCEPT !.h_refcnt = @ - 1]}]]
    ELSE [hs |-> handlers, st |-> [hstore EXCEPT !.uaf = TRUE]]

\* http_sconn_cbdone up to the release of the server lock: the result is
\* zero, the handler's h_is_upgrader and the output are read, and the
\* reference the dispatch took on the handler is released.
CbDoneBegin(c) ==
    /\ sess[c].life = "live"
    /\ sess[c].cb = "ok"
    /\ sess' = [sess EXCEPT ![c] =
          [@ EXCEPT !.cb = "run",
                    !.g_upgraded = (sess[c].cbupg /\ sess[c].cbout = "null")]]
    /\ handlers' = cbdone_release(sess[c].cbh).hs
    /\ hstore' = cbdone_release(sess[c].cbh).st
    /\ UNCHANGED <<starts, s_closed, tep, accaio, accfini, conns, nconn,
                   start_rv, fini_pc, add_rv, look_rv, canon_rv, varsDir>>

cbdone_rest_M(r, resp) ==
    LET r1 == [r EXCEPT !.cb = "idle", !.cbout = "none", !.cbupg = FALSE]
    IN  IF r.cbupg /\ r.cbout = "null"
        THEN http_sconn_close_locked(
                 [r1 EXCEPT !.http = "null", !.res = "null", !.g_upg = TRUE])
        ELSE IF r.cbout = "res"
        THEN write_res([r1 EXCEPT !.close = r.close \/ resp.setclose],
                       IF resp.body THEN "body" ELSE "empty")
        ELSE read_req(r1, "cb")

\* The rest of http_sconn_cbdone, after the server lock is released.
cbdone_rest(r, resp) ==
    LET r1 == [r EXCEPT !.cb = "idle", !.cbout = "none", !.cbupg = FALSE]
    IN  IF r.cbupg /\ r.cbout = "null"
        THEN http_sconn_close_locked(
                 [r1 EXCEPT !.http = "null", !.res = "null", !.g_upg = TRUE])
        ELSE IF r.cbout = "res"
        THEN write_res([r1 EXCEPT !.close = r.close \/ resp.setclose],
                       IF resp.body THEN "body" ELSE "empty")
        ELSE IF r.close THEN http_sconn_close_locked(r1)
        ELSE read_req(r1, "cb")

CbDoneEnd(c, resp) ==
    /\ sess[c].life = "live"
    /\ sess[c].cb = "run"
    /\ sess' = [sess EXCEPT ![c] = cbdone_rest(@, resp)]
    /\ UNCHANGED <<starts, s_closed, tep, accaio, accfini, conns, nconn,
                   start_rv, fini_pc, varsReg, varsDir>>

txdone_rest_M(r) ==
    LET r1 == [r EXCEPT !.tx = "idle"]
        size == IF r.head THEN 0 ELSE IF r.res = "body" THEN 1 ELSE 0
    IN  IF size # 0 THEN post(read_req(r1, "tx"), "txd")
        ELSE IF r.close THEN http_sconn_close_locked(r1)
        ELSE read_req([r1 EXCEPT !.res = "null"], "tx")

\* http_sconn_txdone on a zero result.
txdone_rest(r) ==
    LET r1 == [r EXCEPT !.tx = "idle"]
        size == IF r.head THEN 0 ELSE IF r.res = "body" THEN 1 ELSE 0
    IN  IF size # 0 THEN post(r1, "txd")
        ELSE IF r.close THEN http_sconn_close_locked(r1)
        ELSE read_req([r1 EXCEPT !.res = "null"], "tx")

TxDoneEnd(c) ==
    /\ sess[c].life = "live"
    /\ sess[c].tx = "ok"
    /\ sess' = [sess EXCEPT ![c] = txdone_rest(@)]
    /\ UNCHANGED <<starts, s_closed, tep, accaio, accfini, conns, nconn,
                   start_rv, fini_pc, varsReg, varsDir>>

\* http_sconn_txdatdone on a zero result.
txdatdone_rest(r) ==
    LET r1 == [r EXCEPT !.txd = "idle", !.res = "null"]
    IN  IF r.close THEN http_sconn_close_locked(r1)
        ELSE read_req(r1, "txd")

TxDatDoneEnd(c) ==
    /\ sess[c].life = "live"
    /\ sess[c].txd = "ok"
    /\ sess' = [sess EXCEPT ![c] = txdatdone_rest(@)]
    /\ UNCHANGED <<starts, s_closed, tep, accaio, accfini, conns, nconn,
                   start_rv, fini_pc, varsReg, varsDir>>

\* ---------------------------------------------------------------- reaper
\* http_sconn_reap, first part: the assertion and finished = true; the
\* nni_aio_stop calls that follow cancel what is posted (ReapCancel) and
\* wait until no slot is busy (the guard of ReapFinish).
ReapBegin(c) ==
    /\ sess[c].reapq > 0
    /\ ~sess[c].reaping
    /\ sess' = [sess EXCEPT ![c] =
          [@ EXCEPT !.reapq = @ - 1,
                    !.afail = @ \/ sess[c].finished \/ sess[c].life # "live",
                    !.finished = TRUE,
                    !.reaping = TRUE,
                    !.g_runs = Inc(@)]]
    /\ UNCHANGED <<starts, s_closed, tep, accaio, accfini, conns, nconn,
                   start_rv, fini_pc, varsReg, varsDir>>

ReapCancel(c, slot) ==
    /\ sess[c].reaping
    /\ sess[c][slot] = "posted"
    /\ sess' = [sess EXCEPT ![c][slot] = "err"]
    /\ UNCHANGED <<starts, s_closed, tep, accaio, accfini, conns, nconn,
                   start_rv, fini_pc, varsReg, varsDir>>

\* http_sconn_reap, the rest: finalize the transport and the response the
\* session still points to, unlink from the live-set under the server
\* lock, wake the condition variable if the live-set is now empty, free.
\* The released storage of a session keeps nothing but the bookkeeping
\* of its reap and of the transport it was made for.
reaped(r) ==
    [SessInit EXCEPT
        !.life = "freed", !.closed = r.closed, !.finished = r.finished,
        !.afail = r.afail, !.reapq = r.reapq,
        !.xport = IF r.http = "set" THEN "fini" ELSE r.xport,
        !.g_sched = r.g_sched, !.g_runs = r.g_runs,
        !.g_upgraded = r.g_upgraded,
        !.g_touched = r.g_touched \/ (r.http = "set" /\ r.g_upgraded)]

\* nni_cv_wake(&s->cv): a thread waiting in nni_cv_wait becomes runnable.
nni_cv_wake == IF fini_pc = "waiting" THEN "woken" ELSE fini_pc

reap_unlink_M(c) == conns

reap_unlink(c) == conns \ {c}

ReapFinish(c) ==
    /\ sess[c].reaping
    /\ AllIdle(sess[c])
    /\ sess' = [sess EXCEPT ![c] = reaped(@)]
    /\ conns' = IF c \in conns THEN reap_unlink(c) ELSE conns
    /\ fini_pc' = IF c \in conns /\ conns' = {} THEN nni_cv_wake ELSE fini_pc
    /\ UNCHANGED <<starts, s_closed, tep, accaio, accfini, nconn,
                   start_rv, varsReg, varsDir>>

\* ------------------------------------------------------------- the server
\* What the transport answers to http_server_start.
StartOutcomes == {"ok", "init_fail", "listen_fail"}

\* nni_http_server_start; o is the transport's answer when the listener is
\* to be created (starts == 0).
start_binds(n) == n = 0

nni_http_server_start(o) ==
    /\ fini_pc = "none"
    /\ starts < MaxStarts
    /\ IF start_binds(starts)
       THEN /\ tep' = CASE o = "ok" -> "listening"
                        [] o = "init_fail" -> tep
                        [] o = "listen_fail" -> "null"
            /\ accaio' = IF o = "ok" /\ ~accfini THEN "posted" ELSE accaio
            /\ start_rv' = IF o = "ok" THEN 0 ELSE 1
            /\ starts' = IF o = "ok" THEN starts + 1 ELSE starts
       ELSE /\ o = "ok"
            /\ starts' = starts + 1
            /\ start_rv' = 0
            /\ UNCHANGED <<tep, accaio>>
    /\ UNCHANGED <<s_closed, accfini, conns, nconn, fini_pc, sess,
                   varsReg, varsDir>>

\* nni_http_server_stop with http_server_stop: only the stop that brings
\* starts to 0 closes the listener and every session of the live-set.
stop_tears_down_M(n) == TRUE

stop_tears_down(n) == n = 0

nni_http_server_stop ==
    /\ fini_pc = "none"
    /\ starts > 0
    /\ starts' = starts - 1
    /\ IF stop_tears_down(starts') /\ ~s_closed
       THEN /\ s_closed' = TRUE
            /\ tep' = IF tep # "null" THEN "closed" ELSE tep
            /\ sess' = [c \in Conns |->
                  IF c \in conns THEN http_sconn_close_locked(sess[c])
                  ELSE sess[c]]
            /\ fini_pc' = nni_cv_wake
       ELSE UNCHANGED <<s_closed, tep, sess, fini_pc>>
    /\ UNCHANGED <<accaio, accfini, conns, nconn, start_rv, varsReg, varsDir>>

\* The listener completes the posted accept: with a connection only while
\* it listens, with an error at any time.
AccComplete(ok) ==
    /\ accaio = "posted"
    /\ ok => tep = "listening" /\ nconn < MaxConns
    /\ accaio' = IF ok THEN "ok" ELSE "err"
    /\ nconn' = IF ok THEN nconn + 1 ELSE nconn
    /\ UNCHANGED <<starts, s_closed, tep, accfini, conns, start_rv, fini_pc,
                   sess, varsReg, varsDir>>

\* nni_plat_tcp_ep_accept(s->tep, s->accaio); a stopped slot takes no
\* operation any more.
accept_post == IF accfini THEN "idle" ELSE "posted"

\* A session as http_sconn_init and http_server_acccb leave it: transport
\* wrapped, first rx posted.
SessAccepted ==
    [SessInit EXCEPT !.life = "live", !.http = "set", !.xport = "open",
                     !.rx = "posted"]

acccb_rejects_M == FALSE

\* if (s->closed) in http_server_acccb
acccb_rejects == s_closed

\* http_server_acccb; initok is the outcome of http_sconn_init (its
\* failure here is the allocation of the session itself).
http_server_acccb(initok) ==
    /\ accaio \in {"ok", "err"}
    /\ IF accaio = "err"
       THEN /\ accaio' = IF ~s_closed THEN accept_post ELSE "idle"
            /\ initok
            /\ UNCHANGED <<conns, sess>>
       ELSE IF acccb_rejects
       THEN /\ accaio' = "idle"
            /\ initok
            /\ UNCHANGED <<conns, sess>>
       ELSE IF ~initok
       THEN /\ accaio' = accept_post
            /\ UNCHANGED <<conns, sess>>
       ELSE /\ sess' = [sess EXCEPT ![nconn] = SessAccepted]
            /\ conns' = conns \cup {nconn}
            /\ accaio' = accept_post
    /\ UNCHANGED <<starts, s_closed, tep, accfini, nconn, start_rv, fini_pc,
                   varsReg, varsDir>>

\* nni_http_server_fini dropping the last reference: http_server_fini
\* stops the accept slot (a posted accept is cancelled, a running callback
\* is waited for) ...
FiniBegin ==
    /\ fini_pc = "none"
    /\ fini_pc' = "stopacc"
    /\ accfini' = TRUE
    /\ accaio' = aio_cancel(accaio)
    /\ UNCHANGED <<starts, s_closed, tep, conns, nconn, start_rv, sess,
                   varsReg, varsDir>>

fini_drained_M == TRUE

\* ... tests the live-set under the server lock ...
fini_drained == conns = {}

\* ... and either waits on the condition variable or finalizes the
\* listener, unlinks and finalizes every handler still registered
\* (whatever its reference count) and releases the server.
FiniCheck ==
    /\ \/ fini_pc = "stopacc" /\ accaio = "idle"
       \/ fini_pc = "woken"
    /\ IF fini_drained
       THEN fini_pc' = "freed" /\ tep' = "null" /\ handlers' = <<>>
       ELSE fini_pc' = "waiting" /\ tep' = tep /\ handlers' = handlers
    /\ UNCHANGED <<starts, s_closed, accaio, accfini, conns, nconn, start_rv,
                   sess, add_rv, hstore, look_rv, canon_rv, varsDir>>

IoSlots == {"rx", "tx", "txd"}

NextSrv ==
    \/ starts = 0 /\ ~s_closed /\ nni_http_server_start("ok")
    \/ nni_http_server_stop
    \/ \E ok \in BOOLEAN : AccComplete(ok)
    \/ \E initok \in BOOLEAN : http_server_acccb(initok)
    \/ FiniBegin
    \/ FiniCheck
    \/ \E c \in Conns, sl \in IoSlots, ok \in BOOLEAN : IoComplete(c, sl, ok)
    \/ \E c \in Conns, out \in {"err", "null", "res"} : HandlerComplete(c, out)
    \/ \E c \in Conns, sl \in Slots : DoneError(c, sl)
    \/ \E c \in Conns, v \in RxViews : RxDoneEnd(c, v)
    \/ \E c \in Conns : CbDoneBegin(c)
    \/ \E c \in Conns, resp \in ResViews : CbDoneEnd(c, resp)
    \/ \E c \in Conns : TxDoneEnd(c)
    \/ \E c \in Conns : TxDatDoneEnd(c)
    \/ \E c \in Conns : ReapBegin(c)
    \/ \E c \in Conns, sl \in Slots : ReapCancel(c, sl)
    \/ \E c \in Conns : ReapFinish(c)

\* ------------------------------------------------ the handler registry
\* What a caller hands to http_server_add_handler: method, path and host
\* strings (NULLSTR when the pointer is null) and whether h_cb is set.
PathChars == {"/", "a"}

RECURSIVE PathsOfLen(_)
PathsOfLen(n) ==
    IF n = 0 THEN {<<>>}
    ELSE {Append(p, ch) : p \in PathsOfLen(n - 1), ch \in PathChars}

RegPaths   == {NULLSTR} \cup UNION {PathsOfLen(n) : n \in 0..MaxPathLen}
RegMethods == {NULLSTR, S_GET, S_POST, S_HEAD}
RegHosts   == {NULLSTR, <<"x">>, <<"X">>, <<"y">>}

\* The two flags are only copied by add-handler; SpecReg registers
\* handlers that have neither.
HandlerArgs ==
    [h_method : RegMethods, h_path : RegPaths, h_host : RegHosts,
     h_cb : BOOLEAN, h_is_dir : {FALSE}, h_is_upgrader : {FALSE}]

\* Handler storage.  A handler is known by its h_id; it is alive while it
\* is linked in s->handlers or, unlinked, still referenced (limbo).
HandlerIds == 1..MaxHandlers

Listed_h(id) == \E k \in 1..Len(handlers) : handlers[k].h_id = id

Alive_h(id) == Listed_h(id) \/ \E h \in hstore.limbo : h.h_id = id

NoLookup == [req |-> NULLSTR, h |-> 0, status |-> 0]

\* The loop that chops the trailing "/" characters off h->h_path.
RECURSIVE chop(_)
chop(path) ==
    IF Len(path) > 0 /\ path[Len(path)] = "/"
    THEN chop(SubSeq(path, 1, Len(path) - 1))
    ELSE path

Min(a, b) == IF a < b THEN a ELSE b

add_collides_M(h2, h) ==
    /\ ~(h2.h_host # NULLSTR /\ h.h_host # NULLSTR
            /\ ~nni_strcasecmp_eq(h2.h_host, h.h_host))
    /\ strcmp_eq(h2.h_method, h.h_method)
    /\ strcmp_eq(h2.h_path, h.h_path)

\* The body of the NNI_LIST_FOREACH in http_server_add_handler: h collides
\* with the registered h2.
add_collides(h2, h) ==
    /\ ~(h2.h_host # NULLSTR /\ h.h_host # NULLSTR
            /\ ~nni_strcasecmp_eq(h2.h_host, h.h_host))
    /\ strcmp_eq(h2.h_method, h.h_method)
    /\ strncmp_eq(h2.h_path, h.h_path, Min(Len(h.h_path), Len(h2.h_path)))

\* What http_server_add_handler returns for hh on the present registry.
add_invalid_M(hh) ==
    hh.h_method = NULLSTR \/ hh.h_path = NULLSTR \/ ~hh.h_cb

add_invalid(hh) ==
    \/ hh.h_method = NULLSTR \/ hh.h_path = NULLSTR \/ ~hh.h_cb
    \/ strcmp_eq(hh.h_method, S_HEAD)

add_rv_of(hh, mem) ==
    IF add_invalid(hh) THEN "NNG_EINVAL"
    ELSE IF ~mem THEN "NNG_ENOMEM"
    ELSE IF \E i \in 1..Len(handlers) :
               add_collides(handlers[i],
                            [h_method |-> hh.h_method,
                             h_path |-> chop(hh.h_path),
                             h_host |-> hh.h_host])
    THEN "NNG_EADDRINUSE"
    ELSE "0"

\* http_server_add_handler; mem says whether its allocations succeed.  The
\* registry of the model holds at most MaxHandlers handlers, and storage
\* for as many.
http_server_add_handler(hh, mem) ==
    LET rv == add_rv_of(hh, mem)
        id == CHOOSE i \in HandlerIds :
                 ~Alive_h(i) /\ \A j \in 1..(i - 1) : Alive_h(j)
        h  == [h_method |-> hh.h_method, h_path |-> chop(hh.h_path),
               h_host |-> hh.h_host, h_refcnt |-> 1,
               h_is_dir |-> hh.h_is_dir,
               h_is_upgrader |-> hh.h_is_upgrader, h_id |-> id]
    IN  /\ rv = "0" =>
              Len(handlers) < MaxHandlers /\ \E i \in HandlerIds : ~Alive_h(i)
        /\ add_rv' = rv
        /\ handlers' = IF rv = "0" THEN Append(handlers, h) ELSE handlers
        /\ look_rv' = NoLookup
        /\ UNCHANGED <<hstore, canon_rv, varsSrv, varsDir>>

del_destroys_M(n) == TRUE

\* if (h->h_refcnt == 0) http_handler_fini(h);
del_destroys(n) == n = 0

\* nni_http_server_del_handler on the i-th registered handler: unlinked,
\* one reference released, finalized if that was the last one.
nni_http_server_del_handler(i) ==
    /\ i \in 1..Len(handlers)
    /\ handlers' = [k \in 1..(Len(handlers) - 1) |->
                       IF k < i THEN handlers[k] ELSE handlers[k + 1]]
    /\ hstore' =
          IF del_destroys(handlers[i].h_refcnt - 1) THEN hstore
          ELSE [hstore EXCEPT !.limbo = @ \cup
                   {[handlers[i] EXCEPT !.h_refcnt = @ - 1]}]
    /\ look_rv' = NoLookup
    /\ UNCHANGED <<add_rv, canon_rv, varsSrv, varsDir>>

InitReg0 ==
    /\ handlers = <<>>
    /\ add_rv = "none"
    /\ hstore = [limbo |-> {}, uaf |-> FALSE]
    /\ look_rv = NoLookup
    /\ canon_rv = NoCanon

\* ------------------------------------------------- lookup and dispatch
\* The host test of the lookup loop: val is the request's Host header.
host_matches(h, val) ==
    h.h_host # NULLSTR =>
        /\ val # NULLSTR
        /\ LET l0  == Len(h.h_host)
               len == IF l0 > 0 /\ h.h_host[l0] = "." THEN l0 - 1 ELSE l0
           IN  /\ nni_strncasecmp_eq(val, h.h_host, len)
               /\ ~(/\ CharAt(val, len + 1) # NUL
                     /\ CharAt(val, len + 1) # ":"
                     /\ (CharAt(val, len + 1) # "."
                            \/ CharAt(val, len + 2) # NUL))

\* The path test: strncmp and the switch on path[len].
path_matches(h, path) ==
    LET len == Len(h.h_path)
    IN  /\ strncmp_eq(path, h.h_path, len)
        /\ \/ CharAt(path, len + 1) = NUL
           \/ /\ CharAt(path, len + 1) = "/"
              /\ ~(CharAt(path, len + 2) # NUL /\ ~h.h_is_dir)

method_matches_M(h, val) == strcmp_eq(val, h.h_method)

\* The method test, HEAD remapped to GET.
method_matches(h, val) ==
    \/ strcmp_eq(val, h.h_method)
    \/ strcmp_eq(val, S_HEAD) /\ strcmp_eq(h.h_method, S_GET)

lookup_skips_M(h, rq) == ~host_matches(h, rq.host)

lookup_skips(h, rq) ==
    ~host_matches(h, rq.host) \/ ~path_matches(h, rq.path)

\* The NNI_LIST_FOREACH of http_sconn_rxdone from the k-th handler on: the
\* index of the handler the loop breaks at (0 when it runs off the list)
\* and badmeth.
RECURSIVE lookup_from(_, _, _)
lookup_from(k, rq, badmeth) ==
    IF k > Len(handlers) THEN [h |-> 0, badmeth |-> badmeth]
    ELSE IF lookup_skips(handlers[k], rq)
    THEN lookup_from(k + 1, rq, badmeth)
    ELSE IF method_matches(handlers[k], rq.method)
    THEN [h |-> k, badmeth |-> badmeth]
    ELSE lookup_from(k + 1, rq, TRUE)

\* The status the lookup answers with: 0 when a handler is dispatched.
lookup_status(res) ==
    IF res.h # 0 THEN 0 ELSE IF res.badmeth THEN 405 ELSE 404

\* The lookups of SpecLook: host header, canonified path and method.
LookHosts ==
    {NULLSTR, <<"x">>, <<"X">>, <<"x", ".">>, <<"x", ":", "8">>,
     <<"x", "y">>, <<"x", ".", "y">>, <<"y">>}

LookPaths ==
    {<<>>, <<"/">>, <<"/", "a">>, <<"/", "a", "/">>, <<"/", "a", "a">>,
     <<"/", "a", "/", "a">>, <<"/", "a", "/", "/">>}

LookRequests ==
    [host : LookHosts, path : LookPaths, method : {S_GET, S_HEAD, S_POST}]

\* The handlers SpecLook registers.
LookArgs ==
    [h_method : {S_GET, S_POST}, h_path : {<<>>, <<"/", "a">>, <<"/", "a", "a">>},
     h_host : {NULLSTR, <<"x">>, <<"x", ".">>, <<"y">>},
     h_cb : {TRUE}, h_is_dir : BOOLEAN, h_is_upgrader : {FALSE}]

\* The lookup of http_sconn_rxdone alone, on the present registry.
Lookup(rq) ==
    /\ LET res == lookup_from(1, rq, FALSE)
       IN  look_rv' = [req |-> rq,
                       h |-> IF res.h = 0 THEN 0 ELSE handlers[res.h].h_id,
                       status |-> lookup_status(res)]
    /\ UNCHANGED <<handlers, add_rv, hstore, canon_rv, varsSrv, varsDir>>

\* The requests of SpecDisp.
DispRequests ==
    [version : {S_HTTP11}, conn : {NULLSTR}, method : {S_GET, S_POST},
     uri : {<<"/", "a", "?", "a">>}, host : {NULLSTR}]

\* The requests of SpecHead.
HeadRequests ==
    [version : {S_HTTP11, S_HTTP10}, conn : {NULLSTR, S_close},
     method : {S_GET, S_HEAD, S_POST},
     uri : {<<"/", "a">>, <<"/", "a", "/">>, <<"/">>},
     host : {NULLSTR, <<"x">>}]

\* The handlers SpecDisp registers.
DispArgs ==
    [h_method : {S_GET}, h_path : {<<"/", "a">>}, h_host : {NULLSTR},
     h_cb : {TRUE}, h_is_dir : {FALSE}, h_is_upgrader : {FALSE}]

\* The handlers SpecHead registers.
HeadArgs ==
    [h_method : {S_GET, S_POST}, h_path : {<<"/", "a">>},
     h_host : {NULLSTR, <<"x">>},
     h_cb : {TRUE}, h_is_dir : {FALSE}, h_is_upgrader : {FALSE}]

\* http_sconn_rxdone on a zero result with the registry in the picture:
\* the uri is canonified, the handler looked up, and the cb slot started
\* with a reference taken on the handler (nni_aio_set_data(cbaio, 1, h);
\* h->h_refcnt++).
RxDispatch(c, rq) ==
    /\ sess[c].life = "live"
    /\ sess[c].rx = "ok"
    /\ \E p \in canon_paths(rq.uri) :
          LET res == lookup_from(1, [host |-> rq.host, path |-> p,
                                     method |-> rq.method], FALSE)
              v   == [status |-> rxdone_status(rq),
                      setclose |-> rxdone_sets_close(rq),
                      head |-> strcmp_eq(rq.method, S_HEAD),
                      route |-> IF res.h = 0
                                THEN (IF res.badmeth THEN "badmeth"
                                      ELSE "none")
                                ELSE IF handlers[res.h].h_is_upgrader
                                     THEN "upg" ELSE "plain",
                      fault |-> "none", want |-> CloseIndicated(rq)]
              hit == v.status = 0 /\ res.h # 0
          IN  /\ sess' = [sess EXCEPT ![c] =
                    [rxdone_rest(@, v) EXCEPT
                        !.g_wantclose = v.want,
                        !.cbh = IF hit THEN handlers[res.h].h_id ELSE @]]
              /\ handlers' = IF hit
                             THEN [handlers EXCEPT ![res.h].h_refcnt = @ + 1]
                             ELSE handlers
    /\ UNCHANGED <<starts, s_closed, tep, accaio, accfini, conns, nconn,
                   start_rv, fini_pc, add_rv, hstore, look_rv, canon_rv,
                   varsDir>>

\* ------------------------------------------------ the server directory
\* A parsed url: scheme, hostname and port strings.
S_http == <<"h", "t", "t", "p">>
S_ftp  == <<"f", "t", "p">>
S_80   == <<"8", "0">>
S_81   == <<"8", "1">>

Urls ==
    [u_scheme : {S_http, S_ftp}, u_hostname : {<<>>, <<"x">>, <<"X">>},
     u_port : {S_80, S_81}]

\* What can fail on the way: the parse of the url string, the allocation
\* of the server, the two nni_aio_init calls, the name lookup.
InitFaults == {"none", "parse", "alloc", "accaio", "aio", "resolv"}

Insts == 1..MaxServers

\* Storage that holds no server (never allocated, or released).
NoServer == [alive |-> FALSE, url |-> NULLSTR, refcnt |-> 0]

\* servers.list is the list http_servers, servers.inst the storage.
Listed(id) == \E k \in 1..Len(servers.list) : servers.list[k] = id

same_address_M(u, s) == strcmp_eq(u.u_port, s.url.u_port)

\* The test of the NNI_LIST_FOREACH in nni_http_server_init.
same_address(u, s) ==
    /\ strcmp_eq(u.u_port, s.url.u_port)
    /\ strcmp_eq(u.u_hostname, s.url.u_hostname)

\* The first entry of the list that the url matches, 0 if none.
dir_find(u) ==
    IF \E k \in 1..Len(servers.list) : same_address(u, servers.inst[servers.list[k]])
    THEN servers.list[CHOOSE k \in 1..Len(servers.list) :
            /\ same_address(u, servers.inst[servers.list[k]])
            /\ \A j \in 1..(k - 1) :
                  ~same_address(u, servers.inst[servers.list[j]])]
    ELSE 0

\* What http_server_init returns.
http_server_init_rv(u, fault) ==
    IF ~strcmp_eq(u.u_scheme, S_http) THEN "NNG_EADDRINVAL"
    ELSE IF fault \in {"alloc", "accaio", "aio"} THEN "NNG_ENOMEM"
    ELSE IF fault = "resolv" THEN "NNG_EADDRINVAL"
    ELSE "0"

\* The lock operations of http_server_fini: nni_mtx_lock(&s->mtx) and
\* nni_mtx_unlock(&s->mtx).
http_server_fini_locks == <<"lock s->mtx", "unlock s->mtx">>

\* The lock operations of http_server_init: those of the http_server_fini
\* its failure paths call once the server is allocated.
http_server_init_locks(u, fault) ==
    IF strcmp_eq(u.u_scheme, S_http) /\ fault \in {"accaio", "aio", "resolv"}
    THEN http_server_fini_locks ELSE <<>>

\* The lock operations of nni_http_server_init.
nni_http_server_init_locks(u, fault) ==
    IF fault = "parse" THEN <<>>
    ELSE <<"lock http_servers_lk">>
           \o (IF dir_find(u) # 0 THEN <<>>
               ELSE http_server_init_locks(u, fault))
           \o <<"unlock http_servers_lk">>

\* The lock operations of nni_http_server_fini that leaves n references.
nni_http_server_fini_locks(n) ==
    <<"lock http_servers_lk">>
        \o (IF n = 0 THEN http_server_fini_locks ELSE <<>>)
        \o <<"unlock http_servers_lk">>

\* The nni_url_free calls http_server_init makes on the url it was handed,
\* its own and the one of the http_server_fini its failure paths call
\* once s->url is set.
http_server_init_frees(u, fault) ==
    IF ~strcmp_eq(u.u_scheme, S_http) THEN 1
    ELSE IF fault = "alloc" THEN 1
    ELSE IF fault \in {"accaio", "aio", "resolv"} THEN 1
    ELSE 0

\* The nni_url_free calls a whole nni_http_server_init makes on the url it
\* parsed.
nni_http_server_init_frees(u, fault) ==
    IF fault = "parse" THEN 0
    ELSE IF dir_find(u) # 0 THEN 1
    ELSE http_server_init_frees(u, fault)
           + (IF http_server_init_rv(u, fault) # "0" THEN 1 ELSE 0)

\* nni_http_server_init, the whole call under http_servers_lk.  init_rv
\* keeps the url asked for, the value returned, the server handed out, how
\* often the parsed url was released and whether the server handed out
\* owns it.
nni_http_server_init(u, fault) ==
    /\ lk' = nni_http_server_init_locks(u, fault)
    /\ IF fault = "parse"
       THEN /\ init_rv' = [url |-> u, rv |-> "NNG_EINVAL", s |-> 0,
                           freed |-> 0, owned |-> FALSE]
            /\ servers' = servers
       ELSE IF dir_find(u) # 0
       THEN /\ servers.inst[dir_find(u)].refcnt < MaxRef
            /\ servers' = [servers EXCEPT !.inst[dir_find(u)].refcnt = @ + 1]
            /\ init_rv' = [url |-> u, rv |-> "0", s |-> dir_find(u),
                           freed |-> nni_http_server_init_frees(u, fault),
                           owned |-> FALSE]
       ELSE IF http_server_init_rv(u, fault) # "0"
       THEN /\ init_rv' = [url |-> u, rv |-> http_server_init_rv(u, fault),
                           s |-> 0,
                           freed |-> nni_http_server_init_frees(u, fault),
                           owned |-> FALSE]
            /\ servers' = servers
       ELSE /\ \E id \in Insts : ~servers.inst[id].alive
            /\ LET id == CHOOSE id \in Insts : ~servers.inst[id].alive
               IN  /\ servers' =
                         [list |-> Append(servers.list, id),
                          inst |-> [servers.inst EXCEPT ![id] =
                             [alive |-> TRUE, url |-> u, refcnt |-> 1]]]
                   /\ init_rv' = [url |-> u, rv |-> "0", s |-> id,
                                   freed |-> nni_http_server_init_frees(u, fault),
                                   owned |-> TRUE]
    /\ UNCHANGED <<varsSrv, varsReg>>

fini_unlinks(n) == n = 0

\* nni_http_server_fini by a holder of a reference to s, the whole call
\* under http_servers_lk; the server has no session to wait for.
nni_http_server_fini(s) ==
    /\ servers.inst[s].alive
    /\ servers.inst[s].refcnt > 0
    /\ LET n == servers.inst[s].refcnt - 1
       IN  servers' =
             IF fini_unlinks(n)
             THEN [list |-> SelectSeq(servers.list, LAMBDA x : x # s),
                   inst |-> [servers.inst EXCEPT ![s] =
                      IF n = 0 THEN NoServer ELSE [@ EXCEPT !.refcnt = n]]]
             ELSE [servers EXCEPT !.inst[s].refcnt = n]
    /\ lk' = nni_http_server_fini_locks(servers.inst[s].refcnt - 1)
    /\ UNCHANGED <<init_rv, varsSrv, varsReg>>

InitDir0 ==
    /\ servers = [list |-> <<>>, inst |-> [id \in Insts |-> NoServer]]
    /\ init_rv = [url |-> NULLSTR, rv |-> "none", s |-> 0, freed |-> 0,
                  owned |-> FALSE]
    /\ lk = <<>>

Init == InitSrv /\ InitReg0 /\ InitDir0

\* Spec: one server started and stopped once by its holder, then released,
\* with every request, response and fault the sessions can meet.
Next == NextSrv

Spec == Init /\ [][Next]_vars

\* The requests that meet no allocation failure and are not HEAD.
RxViewsPlain == {v \in RxViews : v.fault = "none" /\ ~v.head}

\* What runs without anyone's leave: the completion handlers, the reaper,
\* the accept callback, the thread inside http_server_fini, and the
\* transport failing the operations posted on a closed connection.
Progress ==
    \/ \E c \in Conns, sl \in Slots : DoneError(c, sl)
    \/ \E c \in Conns, v \in RxViewsPlain : RxDoneEnd(c, v)
    \/ \E c \in Conns : CbDoneBegin(c)
    \/ \E c \in Conns, resp \in ResViews : CbDoneEnd(c, resp)
    \/ \E c \in Conns : TxDoneEnd(c)
    \/ \E c \in Conns : TxDatDoneEnd(c)
    \/ \E c \in Conns : ReapBegin(c)
    \/ \E c \in Conns, sl \in Slots : ReapCancel(c, sl)
    \/ \E c \in Conns : ReapFinish(c)
    \/ \E c \in Conns, sl \in IoSlots :
          sess[c].xport # "open" /\ IoComplete(c, sl, FALSE)
    \/ http_server_acccb(TRUE)
    \/ FiniCheck

\* FairSpec: the runs of one server from its start to its release after a
\* stop, fairly scheduled.  The requests are those that meet no allocation
\* failure and are not HEAD; the holder releases the server only after it
\* has stopped it.
NextDrain ==
    \/ starts = 0 /\ ~s_closed /\ nni_http_server_start("ok")
    \/ nni_http_server_stop
    \/ AccComplete(TRUE)
    \/ http_server_acccb(TRUE)
    \/ s_closed /\ FiniBegin
    \/ FiniCheck
    \/ \E c \in Conns, sl \in IoSlots, ok \in BOOLEAN : IoComplete(c, sl, ok)
    \/ \E c \in Conns, out \in {"err", "null", "res"} : HandlerComplete(c, out)
    \/ \E c \in Conns, sl \in Slots : DoneError(c, sl)
    \/ \E c \in Conns, v \in RxViewsPlain : RxDoneEnd(c, v)
    \/ \E c \in Conns : CbDoneBegin(c)
    \/ \E c \in Conns, resp \in ResViews : CbDoneEnd(c, resp)
    \/ \E c \in Conns : TxDoneEnd(c)
    \/ \E c \in Conns : TxDatDoneEnd(c)
    \/ \E c \in Conns : ReapBegin(c)
    \/ \E c \in Conns, sl \in Slots : ReapCancel(c, sl)
    \/ \E c \in Conns : ReapFinish(c)

FairSpec == Init /\ [][NextDrain]_vars /\ WF_vars(Progress)

\* FairFini: as FairSpec, but the holder may release the server at any
\* time, stopped or not.
NextFini ==
    \/ starts = 0 /\ ~s_closed /\ nni_http_server_start("ok")
    \/ nni_http_server_stop
    \/ AccComplete(TRUE)
    \/ http_server_acccb(TRUE)
    \/ FiniBegin
    \/ FiniCheck
    \/ \E c \in Conns, sl \in IoSlots, ok \in BOOLEAN : IoComplete(c, sl, ok)
    \/ \E c \in Conns, out \in {"err", "null", "res"} : HandlerComplete(c, out)
    \/ \E c \in Conns, sl \in Slots : DoneError(c, sl)
    \/ \E c \in Conns, v \in RxViewsPlain : RxDoneEnd(c, v)
    \/ \E c \in Conns : CbDoneBegin(c)
    \/ \E c \in Conns, resp \in ResViews : CbDoneEnd(c, resp)
    \/ \E c \in Conns : TxDoneEnd(c)
    \/ \E c \in Conns : TxDatDoneEnd(c)
    \/ \E c \in Conns : ReapBegin(c)
    \/ \E c \in Conns, sl \in Slots : ReapCancel(c, sl)
    \/ \E c \in Conns : ReapFinish(c)

FairFini == Init /\ [][NextFini]_vars /\ WF_vars(Progress)

\* SpecLife: the server's start/stop/accept life in full (every outcome of
\* start, restarts after a stop), with sessions that wait for a request
\* until their read fails or the server closes them.
NextLife ==
    \/ \E o \in StartOutcomes : nni_http_server_start(o)
    \/ nni_http_server_stop
    \/ \E ok \in BOOLEAN : AccComplete(ok)
    \/ \E initok \in BOOLEAN : http_server_acccb(initok)
    \/ FiniBegin
    \/ FiniCheck
    \/ \E c \in Conns : IoComplete(c, "rx", FALSE)
    \/ \E c \in Conns : DoneError(c, "rx")
    \/ \E c \in Conns : ReapBegin(c)
    \/ \E c \in Conns : ReapFinish(c)

SpecLife == Init /\ [][NextLife]_vars

\* SpecCanon: http_uri_canonify applied to one of the request-URIs of the
\* model, and then to the path it returned.
Canonify(u) ==
    /\ canon_rv = NoCanon
    /\ \E p \in canon_paths(u) :
          canon_rv' = [uri |-> u, path |-> p, again |-> FALSE]
    /\ UNCHANGED <<handlers, add_rv, hstore, look_rv, varsSrv, varsDir>>

Recanonify ==
    /\ canon_rv # NoCanon
    /\ ~canon_rv.again
    /\ \E p \in canon_paths(canon_rv.path) :
          canon_rv' = [uri |-> canon_rv.path, path |-> p, again |-> TRUE]
    /\ UNCHANGED <<handlers, add_rv, hstore, look_rv, varsSrv, varsDir>>

NextCanon ==
    \/ \E u \in Uris : Canonify(u)
    \/ Recanonify

SpecCanon == Init /\ [][NextCanon]_vars

\* SpecLook: a registry built by add-handler and delete-handler calls,
\* and then one lookup on it.
NextLook ==
    \/ \E hh \in LookArgs :
          look_rv = NoLookup /\ http_server_add_handler(hh, TRUE)
    \/ \E i \in 1..MaxHandlers :
          look_rv = NoLookup /\ nni_http_server_del_handler(i)
    \/ \E rq \in LookRequests : look_rv = NoLookup /\ Lookup(rq)

SpecLook == Init /\ [][NextLook]_vars

\* SpecDisp: one server with its registry: handlers are added and deleted
\* while sessions dispatch requests to them, until the server is stopped
\* and released.
NextDisp ==
    \/ starts = 0 /\ ~s_closed /\ nni_http_server_start("ok")
    \/ nni_http_server_stop
    \/ AccComplete(TRUE)
    \/ http_server_acccb(TRUE)
    \/ s_closed /\ FiniBegin
    \/ FiniCheck
    \/ \E hh \in DispArgs : fini_pc = "none" /\ http_server_add_handler(hh, TRUE)
    \/ \E i \in 1..MaxHandlers :
          fini_pc = "none" /\ nni_http_server_del_handler(i)
    \/ \E c \in Conns, sl \in IoSlots, ok \in BOOLEAN : IoComplete(c, sl, ok)
    \/ \E c \in Conns, out \in {"err", "res"} : HandlerComplete(c, out)
    \/ \E c \in Conns, sl \in Slots : DoneError(c, sl)
    \/ \E c \in Conns, rq \in DispRequests : RxDispatch(c, rq)
    \/ \E c \in Conns : CbDoneBegin(c)
    \/ \E c \in Conns : CbDoneEnd(c, [setclose |-> FALSE, body |-> FALSE])
    \/ \E c \in Conns : TxDoneEnd(c)
    \/ \E c \in Conns : ReapBegin(c)
    \/ \E c \in Conns, sl \in Slots : ReapCancel(c, sl)
    \/ \E c \in Conns : ReapFinish(c)

SpecDisp == Init /\ [][NextDisp]_vars

\* SpecHead: one session of a server whose handlers are registered before
\* it starts, with GET, HEAD and POST requests.
NextHead ==
    \/ \E hh \in HeadArgs : starts = 0 /\ http_server_add_handler(hh, TRUE)
    \/ starts = 0 /\ ~s_closed /\ nni_http_server_start("ok")
    \/ nni_http_server_stop
    \/ nconn = 0 /\ AccComplete(TRUE)
    \/ http_server_acccb(TRUE)
    \/ \E c \in Conns, sl \in IoSlots, ok \in BOOLEAN : IoComplete(c, sl, ok)
    \/ \E c \in Conns, out \in {"err", "null", "res"} : HandlerComplete(c, out)
    \/ \E c \in Conns, sl \in Slots : DoneError(c, sl)
    \/ \E c \in Conns, rq \in HeadRequests : RxDispatch(c, rq)
    \/ \E c \in Conns : CbDoneBegin(c)
    \/ \E c \in Conns, resp \in ResViews : CbDoneEnd(c, resp)
    \/ \E c \in Conns : TxDoneEnd(c)
    \/ \E c \in Conns : TxDatDoneEnd(c)
    \/ \E c \in Conns : ReapBegin(c)
    \/ \E c \in Conns, sl \in Slots : ReapCancel(c, sl)
    \/ \E c \in Conns : ReapFinish(c)

SpecHead == Init /\ [][NextHead]_vars

\* SpecReg: the registry of one server under add-handler and delete-handler
\* calls.
NextReg ==
    \/ \E hh \in HandlerArgs, mem \in BOOLEAN : http_server_add_handler(hh, mem)
    \/ \E i \in 1..MaxHandlers : nni_http_server_del_handler(i)

SpecReg == Init /\ [][NextReg]_vars

\* SpecDir: the server directory under nni_http_server_init and
\* nni_http_server_fini calls.
NextDir ==
    \/ \E u \in Urls, fault \in InitFaults : nni_http_server_init(u, fault)
    \/ \E s \in Insts : nni_http_server_fini(s)

SpecDir == Init /\ [][NextDir]_vars

\* ------------------------------------------------------------- properties
FiniRunning == fini_pc \in {"stopacc", "waiting", "woken"}

\* C1: hard stop drains.  Once stop has closed the server, under fair
\* scheduling of the completion handlers and the reaper every session of
\* the live-set is closed and reaped, the live-set becomes empty, a fini
\* waiting on the condition variable is woken and a fini in progress
\* returns.
Drained ==
    /\ conns = {}
    /\ \A c \in Conns :
          \/ sess[c].life = "unborn"
          \/ sess[c].life = "freed" /\ sess[c].closed

C1_HardStopDrains ==
    /\ s_closed ~> Drained
    /\ (s_closed /\ FiniRunning) ~> (fini_pc = "freed")

\* C1 witness: fini was waiting on the drain of a stopped server, has been
\* woken by the reap of the last session, and every session is reaped.
C1_Witness ==
    /\ s_closed
    /\ fini_pc = "woken"
    /\ conns = {}
    /\ \A c \in Conns : sess[c].life = "freed" /\ sess[c].closed

\* C2: once an upgrader handler has completed its cb slot successfully
\* with no response (the session has seen it in http_sconn_cbdone), the
\* session never closes, finalizes or writes to the transport.
C2_UpgradeUntouched == \A c \in Conns : ~sess[c].g_touched

C4_ReapOnce ==
    \A c \in Conns :
        /\ ~sess[c].afail
        /\ sess[c].g_sched <= 1
        /\ sess[c].g_runs <= 1
        /\ sess[c].reapq <= 1
        /\ sess[c].closed <=> sess[c].g_sched = 1
        /\ sess[c].finished <=> sess[c].g_runs = 1
        /\ sess[c].g_runs + sess[c].reapq = sess[c].g_sched

\* C4 witness: the server has been stopped while a session that is being
\* reaped still has a cancelled slot whose completion handler will close
\* it once more.
C4_Witness ==
    \E c \in Conns :
        /\ s_closed
        /\ sess[c].finished
        /\ sess[c].life = "live"
        /\ \E sl \in Slots : sess[c][sl] = "err"

C7_StartStop ==
    [][ /\ (starts' = starts + 1 /\ starts = 0)
            => /\ tep' = "listening" /\ accaio' = "posted" /\ start_rv' = 0
               /\ UNCHANGED <<s_closed, conns, sess>>
        /\ (starts' = starts + 1 /\ starts > 0)
            => /\ start_rv' = 0
               /\ UNCHANGED <<s_closed, tep, accaio, conns, sess>>
        /\ (tep' = "listening" /\ tep # "listening")
            => starts = 0 /\ starts' = 1
        /\ (start_rv' # 0 /\ start_rv = 0)
            => /\ starts = 0 /\ starts' = 0
               /\ UNCHANGED <<s_closed, accaio, conns, sess>>
        /\ (starts' = starts - 1 /\ starts' > 0)
            => UNCHANGED <<s_closed, tep, accaio, conns, sess>>
        /\ (s_closed' /\ ~s_closed)
            => /\ starts = 1 /\ starts' = 0
               /\ tep' = "closed"
               /\ \A c \in conns : sess'[c].closed
        /\ (starts = 1 /\ starts' = 0 /\ ~s_closed)
            => s_closed' /\ tep' = "closed"
        /\ (tep' = "closed" /\ tep # "closed")
            => starts = 1 /\ starts' = 0
      ]_vars

\* C7 witness: the stop that brought starts to 0 has closed the listener
\* and a session that was live and not yet closed by anything else.
C7_Witness ==
    /\ starts = 0
    /\ s_closed
    /\ tep = "closed"
    /\ \E c \in conns :
          sess[c].closed /\ sess[c].g_sched = 1 /\ ~sess[c].finished
             /\ sess[c].rx = "err"

\* The listener accepts: it is bound, a connection it delivers is linked
\* into the live-set, and the accept is posted or about to be re-posted.
Accepting == tep = "listening" /\ ~s_closed /\ accaio # "idle"

\* C8: while the server is held, starts == 0 exactly when the listener is
\* not accepting.
C8_StartsIffAccepting == fini_pc = "none" => ((starts = 0) <=> ~Accepting)

\* C10: the close policy.  A request read with a close indication sets the
\* close flag; a set close flag stays set, no rx is posted under it and at
\* most one response is written under it; the completion of the last
\* write of a response closes the session if close is set and posts rx
\* again if it is not.
LastWrite(c) ==
    /\ sess'[c].life = "live"
    /\ \/ sess[c].tx = "ok" /\ sess'[c].tx = "idle" /\ sess'[c].txd # "posted"
       \/ sess[c].txd = "ok" /\ sess'[c].txd = "idle"

C10_ClosePolicy ==
    /\ [](\A c \in Conns :
            /\ sess[c].g_wantclose => sess[c].close
            /\ sess[c].close => sess[c].rx = "idle"
            /\ sess[c].g_txclose <= 1)
    /\ [][\A c \in Conns :
            /\ (sess[c].close /\ sess'[c].life = "live") => sess'[c].close
            /\ (sess[c].rx = "ok" /\ sess'[c].rx = "idle"
                   /\ ~sess'[c].g_wantclose /\ ~sess[c].close)
                  => ~sess'[c].close
            /\ LastWrite(c) =>
                  IF sess[c].close THEN sess'[c].closed
                  ELSE sess'[c].rx = "posted"]_vars

\* C10 as claimed: after the response to a request that carried no close
\* indication the session posts rx again.
C10_Original ==
    [][\A c \in Conns :
          (LastWrite(c) /\ ~sess[c].g_wantclose) => sess'[c].rx = "posted"]_vars

\* C10 witness: the response to an HTTP/1.0 request has been written and
\* the session has closed itself without another read.
C10_Witness ==
    \E c \in Conns :
        /\ sess[c].life = "live"
        /\ sess[c].g_wantclose /\ sess[c].close /\ sess[c].closed
        /\ sess[c].g_resp /\ sess[c].g_txclose = 1
        /\ sess[c].rx = "idle" /\ sess[c].tx = "idle" /\ sess[c].txd = "idle"
        /\ ~s_closed

\* a is a prefix of b.
IsPrefix(a, b) == Len(a) <= Len(b) /\ SubSeq(b, 1, Len(a)) = a

\* Hosts equal ignoring case, or at least one absent.
HostsCompatible(a, b) ==
    \/ a = NULLSTR
    \/ b = NULLSTR
    \/ Len(a) = Len(b) /\ \A k \in 1..Len(a) : tolower(a[k]) = tolower(b[k])

\* C6: for every two distinct handlers of the registry with string-equal
\* methods and compatible hosts neither stored path is a prefix of the
\* other's, and no stored path ends with a slash.
C6_NoPrefixPairs ==
    /\ \A i, j \in 1..Len(handlers) :
          (/\ i # j
           /\ handlers[i].h_method = handlers[j].h_method
           /\ HostsCompatible(handlers[i].h_host, handlers[j].h_host))
              => ~IsPrefix(handlers[i].h_path, handlers[j].h_path)
    /\ \A i \in 1..Len(handlers) :
          LET p == handlers[i].h_path
          IN  p # NULLSTR /\ (Len(p) > 0 => p[Len(p)] # "/")

\* C6 witness: two handlers with the same method and compatible hosts are
\* registered, and an add that collided with them has just been refused.
C6_Witness ==
    /\ Len(handlers) = 2
    /\ handlers[1].h_method = handlers[2].h_method
    /\ HostsCompatible(handlers[1].h_host, handlers[2].h_host)
    /\ handlers[1].h_host # handlers[2].h_host
    /\ add_rv = "NNG_EADDRINUSE"

RECURSIVE RefSum(_)
RefSum(ids) ==
    IF ids = {} THEN 0
    ELSE LET id == CHOOSE x \in ids : TRUE
         IN  servers.inst[id].refcnt + RefSum(ids \ {id})

Address(url) == <<url.u_hostname, url.u_port>>

\* C9: a server instance is linked in the directory exactly when its
\* refcount is positive, no two entries have the same (hostname, port),
\* and a step that takes a reference is an init that either finds the
\* address present and returns that instance with its refcount one higher,
\* or finds it absent and links a new instance at refcount 1.
C9_Directory ==
    /\ [](/\ \A id \in Insts : Listed(id) <=> servers.inst[id].refcnt > 0
          /\ \A j, k \in 1..Len(servers.list) :
                j # k =>
                   /\ servers.list[j] # servers.list[k]
                   /\ Address(servers.inst[servers.list[j]].url)
                         # Address(servers.inst[servers.list[k]].url))
    /\ [][ \A id \in Insts :
             servers'.inst[id].refcnt > servers.inst[id].refcnt
               => /\ init_rv'.rv = "0" /\ init_rv'.s = id
                  /\ \A o \in Insts \ {id} : servers'.inst[o] = servers.inst[o]
                  /\ IF \E o \in Insts :
                           /\ Listed(o)
                           /\ Address(servers.inst[o].url) = Address(init_rv'.url)
                     THEN /\ Listed(id)
                          /\ Address(servers.inst[id].url) = Address(init_rv'.url)
                          /\ servers'.inst[id] =
                                [servers.inst[id] EXCEPT !.refcnt = @ + 1]
                          /\ servers'.list = servers.list
                     ELSE /\ ~Listed(id)
                          /\ servers'.inst[id].refcnt = 1
                          /\ Address(servers'.inst[id].url) = Address(init_rv'.url)
                          /\ servers'.list = Append(servers.list, id)
         ]_vars

\* C9 witness: two servers are linked, one of them handed out twice, and
\* their addresses differ in the case of the hostname only.
C9_Witness ==
    /\ Len(servers.list) = 2
    /\ \E id \in Insts : servers.inst[id].refcnt = 2 /\ init_rv.s = id
    /\ \E a, b \in Insts :
          /\ servers.inst[a].alive /\ servers.inst[b].alive
          /\ servers.inst[a].url.u_hostname = <<"x">>
          /\ servers.inst[b].url.u_hostname = <<"X">>
          /\ servers.inst[a].url.u_port = servers.inst[b].url.u_port

\* ------------------------------------------------ canonifier properties
HasEscape(w) ==
    \E i \in 1..Len(w) :
        w[i] = "%" /\ isxdigit(BufAt(w, i + 1)) /\ isxdigit(BufAt(w, i + 2))

\* The decoding spec 4.1 step 3 describes: one byte for each %HH, the
\* scan resuming after the two digits, anything else copied once.
RECURSIVE RefDecode(_, _, _)
RefDecode(buf, i, out) ==
    IF BufAt(buf, i) = NUL \/ i > Len(buf) THEN out
    ELSE IF BufAt(buf, i) = "%" /\ isxdigit(BufAt(buf, i + 1))
                                /\ isxdigit(BufAt(buf, i + 2))
    THEN RefDecode(buf, i + 3,
            Append(out, Chr(http_hexval(BufAt(buf, i + 1)) * 16
                              + http_hexval(BufAt(buf, i + 2)))))
    ELSE RefDecode(buf, i + 1, Append(out, BufAt(buf, i)))

\* C14: for every request-URI that has no query and no scheme, the path
\* http_uri_canonify returns is the reference decoding of the URI: one
\* byte for each %HH, every other character copied once, nothing
\* duplicated and nothing dropped.
C14_DecodesAsReference ==
    (/\ canon_rv # NoCanon
     /\ ~canon_rv.again
     /\ strchr_at(canon_rv.uri, 1, "?") = 0
     /\ ~nni_strncasecmp_eq(canon_rv.uri, S_httpcss, 7)
     /\ ~nni_strncasecmp_eq(canon_rv.uri, S_httpscss, 8))
        => canon_rv.path = cstr(RefDecode(canon_rv.uri, 1, <<>>))

Lower(w) == [i \in 1..Len(w) |-> tolower(w[i])]

HostRule(h, host) ==
    h.h_host # NULLSTR =>
        /\ host # NULLSTR
        /\ LET n0 == Len(h.h_host)
               hh == IF n0 > 0 /\ h.h_host[n0] = "."
                     THEN SubSeq(h.h_host, 1, n0 - 1) ELSE h.h_host
               n  == Len(hh)
           IN  /\ Len(host) >= n
               /\ Lower(SubSeq(host, 1, n)) = Lower(hh)
               /\ \/ Len(host) = n
                  \/ host[n + 1] = ":"
                  \/ SubSeq(host, n + 1, Len(host)) = <<".">>

PathRule(h, path) ==
    LET L == Len(h.h_path)
    IN  /\ Len(path) >= L
        /\ SubSeq(path, 1, L) = h.h_path
        /\ \/ Len(path) = L
           \/ SubSeq(path, L + 1, Len(path)) = <<"/">>
           \/ h.h_is_dir /\ Len(path) > L + 1 /\ path[L + 1] = "/"

MethodRule(h, m) == m = h.h_method \/ (m = S_HEAD /\ h.h_method = S_GET)

\* C11: a HEAD request with an HTTP/1.x version is dispatched to the first
\* registered GET handler that matches its host and path, if there is one;
\* while the request of a session is a HEAD request its tx_body slot is
\* never posted; and when tx has succeeded for it the session closes if
\* close is set and otherwise drops the response and posts rx.
C11_Head ==
    /\ [](\A c \in Conns :
            (sess[c].life = "live" /\ sess[c].head) => sess[c].txd = "idle")
    /\ [][ \A c \in Conns :
             /\ \A rq \in HeadRequests :
                  (/\ RxDispatch(c, rq)
                   /\ rq.method = S_HEAD
                   /\ \E k \in 1..Len(handlers) :
                         /\ handlers[k].h_method = S_GET
                         /\ HostRule(handlers[k], rq.host)
                         /\ PathRule(handlers[k], rq.uri))
                     => LET k == CHOOSE k \in 1..Len(handlers) :
                                   /\ handlers[k].h_method = S_GET
                                   /\ HostRule(handlers[k], rq.host)
                                   /\ PathRule(handlers[k], rq.uri)
                                   /\ \A j \in 1..(k - 1) :
                                        ~(/\ handlers[j].h_method = S_GET
                                          /\ HostRule(handlers[j], rq.host)
                                          /\ PathRule(handlers[j], rq.uri))
                        IN  /\ sess'[c].cb = "posted"
                            /\ sess'[c].cbh = handlers[k].h_id
                            /\ handlers'[k].h_refcnt = handlers[k].h_refcnt + 1
             /\ (/\ sess[c].life = "live" /\ sess[c].head
                 /\ sess[c].tx = "ok" /\ sess'[c].tx = "idle")
                   => /\ sess'[c].txd = "idle"
                      /\ IF sess[c].close THEN sess'[c].closed
                         ELSE sess'[c].rx = "posted" /\ sess'[c].res = "null"
         ]_vars

\* C11 witness: a HEAD request was dispatched to a handler, its response
\* had a body, the head write succeeded, and the session, close being
\* set, has closed with tx_body never posted and the server still open.
C11_Witness ==
    \E c \in Conns :
        /\ sess[c].life = "live" /\ sess[c].head /\ sess[c].cbh # 0
        /\ sess[c].res = "body" /\ sess[c].g_resp
        /\ sess[c].close /\ sess[c].closed /\ ~s_closed
        /\ sess[c].tx = "idle" /\ sess[c].txd = "idle"

\* The k-th registered handler matches the looked-up request on host and
\* path (HostPath), and on the method as well (Full), by the rules of
\* spec 4.2.
HostPath(k) ==
    /\ HostRule(handlers[k], look_rv.req.host)
    /\ PathRule(handlers[k], look_rv.req.path)

Full(k) == HostPath(k) /\ MethodRule(handlers[k], look_rv.req.method)

\* C12: a lookup that finds a handler matching host, path and method
\* dispatches the first such handler in registration order; one that finds
\* none reports 405 if some handler matches on host and path and 404
\* otherwise.
C12_Lookup ==
    look_rv # NoLookup =>
        IF \E k \in 1..Len(handlers) : Full(k)
        THEN /\ look_rv.status = 0
             /\ \E k \in 1..Len(handlers) :
                   /\ Full(k)
                   /\ \A j \in 1..(k - 1) : ~Full(j)
                   /\ look_rv.h = handlers[k].h_id
        ELSE /\ look_rv.h = 0
             /\ look_rv.status \in {404, 405}
             /\ look_rv.status = 405 <=> \E k \in 1..Len(handlers) : HostPath(k)

\* C12 witness: with two handlers registered, the first one matching the
\* request on host and path only and the second one not at all, the lookup
\* reported 405.
C12_Witness ==
    /\ Len(handlers) = 2
    /\ look_rv # NoLookup
    /\ look_rv.status = 405
    /\ HostPath(1) /\ ~HostPath(2)
    /\ handlers[1].h_host # NULLSTR

\* ----------------------------------------------- add-handler properties
\* The path without its trailing slashes.
Trimmed(p) ==
    LET n == CHOOSE k \in 0..Len(p) :
                 /\ k = 0 \/ p[k] # "/"
                 /\ \A j \in (k + 1)..Len(p) : p[j] = "/"
    IN  SubSeq(p, 1, n)

\* spec 4.2, add: the arguments that are rejected as invalid, and those
\* that collide with a registered handler.
Rejected(hh) ==
    hh.h_method = NULLSTR \/ hh.h_path = NULLSTR \/ ~hh.h_cb
        \/ hh.h_method = S_HEAD

Colliding(hh) ==
    \E k \in 1..Len(handlers) :
        /\ handlers[k].h_method = hh.h_method
        /\ HostsCompatible(handlers[k].h_host, hh.h_host)
        /\ \/ IsPrefix(handlers[k].h_path, Trimmed(hh.h_path))
           \/ IsPrefix(Trimmed(hh.h_path), handlers[k].h_path)

\* C13: an add-handler call whose allocations succeed returns
\* invalid-argument when method, path or callback is missing or the method
\* is HEAD, and otherwise address-in-use when the new handler collides with
\* a registered one; a call that returns either error (no step of SpecReg
\* but an add-handler call keeps the registry as long as it is) leaves the
\* registry, the reference counts and the handler storage as they were.
C13_AddErrors ==
    /\ [](\A hh \in HandlerArgs :
            /\ Rejected(hh) => add_rv_of(hh, TRUE) = "NNG_EINVAL"
            /\ (~Rejected(hh) /\ Colliding(hh))
                  => add_rv_of(hh, TRUE) = "NNG_EADDRINUSE")
    /\ [][ (/\ add_rv' \in {"NNG_EINVAL", "NNG_EADDRINUSE"}
            /\ Len(handlers') >= Len(handlers))
              => handlers' = handlers /\ hstore' = hstore
         ]_vars

\* C13 witness: /a is registered with refcount 1 and an add that collided
\* with it has just been refused.
C13_Witness ==
    /\ Len(handlers) = 1
    /\ handlers[1].h_path = <<"/", "a">>
    /\ handlers[1].h_refcnt = 1
    /\ hstore.limbo = {}
    /\ add_rv = "NNG_EADDRINUSE"

\* ------------------------------------------------- handler references
\* The sessions whose dispatch to handler id has not completed yet: the cb
\* slot was started on it and http_sconn_cbdone has not run.
InFlightOn(id) ==
    {c \in Conns : /\ sess[c].life = "live"
                   /\ sess[c].cbh = id
                   /\ sess[c].cb \in {"posted", "ok", "err"}}

\* C16: every reference a dispatch took is released when its cb slot has
\* completed: a registered handler's refcount is 1 plus the number of
\* dispatches in flight on it, and a handler deleted during a dispatch
\* stays around only as long as a dispatch is in flight on it.
C16_RefsReleased ==
    /\ \A k \in 1..Len(handlers) :
          handlers[k].h_refcnt = 1 + Cardinality(InFlightOn(handlers[k].h_id))
    /\ \A h \in hstore.limbo :
          h.h_refcnt = Cardinality(InFlightOn(h.h_id))

\* C17: a handler a dispatch in flight refers to has not been destroyed,
\* and no record is read, released or destroyed after it has been
\* destroyed, for all interleavings of delete-handler, dispatch, cb
\* completion, stop and teardown.
C17_HandlerLifetime ==
    /\ ~hstore.uaf
    /\ \A c \in Conns :
          (sess[c].life = "live" /\ sess[c].cbh # 0
              /\ sess[c].cb \in {"posted", "ok", "err"})
            => Alive_h(sess[c].cbh)

\* C17 witness: the handler was deleted while a dispatch was in flight on
\* it, and http_sconn_cbdone, releasing the last reference, has destroyed
\* it.
C17_Witness ==
    \E c \in Conns :
        /\ sess[c].life = "live"
        /\ sess[c].cb = "run"
        /\ sess[c].cbh # 0
        /\ ~Alive_h(sess[c].cbh)
        /\ ~hstore.uaf

\* ------------------------------------------------------- lock ordering
\* C18: no nni_http_server_init or nni_http_server_fini call locks a
\* server's lock between its locking and its unlocking of the directory
\* lock.
C18_LockOrder ==
    \A i, j \in 1..Len(lk) :
        (i < j /\ lk[i] = "lock http_servers_lk" /\ lk[j] = "lock s->mtx")
            => \E k \in (i + 1)..(j - 1) : lk[k] = "unlock http_servers_lk"

\* ------------------------------------------------------ closed sessions
\* C19: a session whose closed flag is set has none of its four slots
\* posted.
C19_ClosedQuiet ==
    \A c \in Conns :
        (sess[c].life = "live" /\ sess[c].closed)
            => \A sl \in Slots : sess[c][sl] # "posted"

\* C20: once the server is closed no session is linked into the live-set
\* any more, an accept that completes afterwards is dropped without the
\* accept being posted again, and every session of the live-set is closed.
C20_ClosedServer ==
    /\ [](s_closed => \A c \in conns : sess[c].closed)
    /\ [][ s_closed =>
             /\ conns' \subseteq conns
             /\ \A c \in Conns : sess[c].life = "unborn"
                                    => sess'[c].life = "unborn"
             /\ (accaio = "ok" /\ http_server_acccb(TRUE))
                   => accaio' = "idle"
         ]_vars

\* C20 witness: the server was stopped with two sessions in its live-set
\* and an accept completed, and has been started again; the accept
\* callback has dropped the connection and the slot is idle.
C20_Witness ==
    /\ s_closed
    /\ starts > 0
    /\ Cardinality(conns) = 1
    /\ nconn = 2
    /\ \E c \in Conns : c \notin conns /\ sess[c].life = "unborn"
    /\ accaio = "idle"

\* --------------------------------------------------- slot serialization
\* The slots of session c that are not idle: posted, completed with the
\* completion handler still to run, or with the handler running.
Busy(c) == {sl \in Slots : sess[c][sl] # "idle"}

\* C21: a session has at most one of its four slots posted; a slot is
\* posted only by the completion handler of the slot that was busy before,
\* which by then is idle.
C21_OneSlot ==
    \A c \in Conns :
        sess[c].life = "live" => Cardinality(Busy(c)) <= 1

\* C21 witness: a request was answered with a synthesized error response
\* whose Connection header could not be set: the session is closed and
\* tx is its one posted slot.
C21_Witness ==
    \E c \in Conns :
        /\ sess[c].life = "live"
        /\ sess[c].closed /\ ~s_closed
        /\ sess[c].close
        /\ sess[c].tx = "posted"
        /\ Busy(c) = {"tx"}

\* ------------------------------------------------ response close header
\* The header value holds "close" in some letter case.
HoldsClose(w) ==
    /\ w # NULLSTR
    /\ \E i \in 1..Len(w) :
          i + 4 <= Len(w) /\ Lower(SubSeq(w, i, i + 4)) = S_close

\* C22: when http_sconn_cbdone is handed a response whose Connection
\* header holds "close" in any letter case, it sets close and writes the
\* response.
C22_ResponseClose ==
    [][ \A c \in Conns, resp \in Responses :
          (/\ sess[c].cbout = "res"
           /\ HoldsClose(resp.conn)
           /\ CbDoneEnd(c, resview(resp)))
             => sess'[c].close /\ sess'[c].tx = "posted"
      ]_vars

\* ---------------------------------------------------- teardown returns
\* C23: under fair scheduling a teardown that has begun, whatever starts
\* and the live-set are at that moment, reaches the release of the server
\* (after which nni_http_server_fini unlocks the directory and returns).
C23_FiniReturns == FiniRunning ~> (fini_pc = "freed")

\* ------------------------------------------------------ url ownership
\* C24: an nni_http_server_init call releases the url it parsed at most
\* once, and not at all when the server it hands out owns it.
C24_UrlFreedOnce ==
    /\ init_rv.freed <= 1
    /\ init_rv.owned => init_rv.freed = 0

\* ------------------------------------------------ canonifier indices
\* C25: on a request-URI handed to the canonifier, the read index ends no
\* further than the terminator of the input and the write index no further
\* than the read index, a two-digit escape at the end of the input
\* included.
C25_IndicesInBounds ==
    (canon_rv # NoCanon /\ ~canon_rv.again)
        => LET r == http_uri_canonify(canon_rv.uri)
           IN  /\ r.tmp <= Len(canon_rv.uri) + 1
               /\ r.dst <= r.tmp

====
